---- MODULE Spec2Model ----
(***************************************************************************)
(* A model of src/src/main.py: the interactive configuration collector     *)
(* (get_user_input), the encoder probe (check_ffmpeg_installed), the       *)
(* recording controller (record_audio_ffmpeg) around one ffmpeg child, and *)
(* the monitor-source detection (detect_pulseaudio_monitor_source).        *)
(*                                                                         *)
(* Text is modelled as a sequence of one-character strings (user input) or *)
(* of tokens (lines of the pactl listing), so that strip(), lower(), int() *)
(* and the substring tests are computed, not assumed.                      *)
(*                                                                         *)
(* SIGINT is modelled from the moment the encoder child has been spawned   *)
(* until record_audio_ffmpeg is left: CPython raises KeyboardInterrupt in  *)
(* the main thread between any two statements, so the exception may arise  *)
(* at every program position of that interval.                             *)
(***************************************************************************)
EXTENDS Integers, Sequences, FiniteSets, TLC

VARIABLES
    pc,                \* position of the single control thread
    hours, minutes, seconds, total_seconds,   \* locals of get_user_input
    blanks,            \* history: the duration prompts that were answered blank
    badPos,            \* history: the prompt whose answer int() rejected
    confirmLead,       \* history: leading character of the confirmation (<<>> if blank)
    duration_seconds,  \* parameter of record_audio_ffmpeg, live until Popen
    out,               \* the messages printed so far, in order
    exitCode,          \* <<>> while the process runs, <<c>> once it has ended
    probeCount,        \* number of `ffmpeg -version` probes made
    spawnCount,        \* number of encoder children spawned
    child,             \* "none" | "running" | "exited"
    exitStatus,        \* exit status of the child once it has exited
    returncode,        \* process.returncode: <<>> is None
    sigterm,           \* SIGTERM has been delivered to the running child
    terminateCalled,   \* process.terminate() has been called
    killCalled,        \* process.kill() has been called
    waited,            \* seconds spent in process.wait(timeout=5)
    file,              \* the output file: "missing" | "empty" | "nonempty"
    interrupts,        \* number of SIGINTs delivered
    intrWhileRunning,  \* history: a SIGINT was delivered while the child ran
    lifecycle,         \* history: controller states entered, in order
    toolMissing,       \* history: "no", or where ffmpeg was not found: "probe" | "spawn"
    toolResult,        \* outcome of `pactl list sources`
    nLines,            \* number of lines of the listing still to be read
    current_name, monitor_sources, result,    \* locals of detect_pulseaudio_monitor_source
    firstName, firstMonitorName               \* history: entries of the listing

inputVars  == <<hours, minutes, seconds, total_seconds, blanks, badPos, confirmLead>>
procVars   == <<child, exitStatus, returncode, sigterm, terminateCalled, killCalled,
                waited, file>>
recVars    == <<duration_seconds, probeCount, spawnCount, interrupts,
                intrWhileRunning, lifecycle, toolMissing>>
detectVars == <<toolResult, nLines, current_name, monitor_sources, result,
                firstName, firstMonitorName>>
vars == <<pc, out, exitCode, inputVars, procVars, recVars, detectVars>>

(***************************************************************************)
(* Bounds of the model.                                                    *)
(***************************************************************************)
MaxInputLen   == 2    \* characters typed at a prompt
MaxInterrupts == 2    \* SIGINTs delivered during one run
MaxLines      == 3    \* lines of the pactl listing
MaxLineLen    == 3    \* tokens of one line of the listing

(***************************************************************************)
(* Program constants.                                                      *)
(***************************************************************************)
DEFAULT_DURATION_HOURS   == 24
DEFAULT_DURATION_MINUTES == 0
DEFAULT_DURATION_SECONDS == 0
WAIT_TIMEOUT             == 5
FALLBACK_SECONDS == 24 * 3600

(***************************************************************************)
(* Text helpers.                                                           *)
(***************************************************************************)
SeqsUpTo(S, n) == UNION { [1..k -> S] : k \in 0..n }

RECURSIVE LStrip(_)
LStrip(s) == IF s # <<>> /\ Head(s) = " " THEN LStrip(Tail(s)) ELSE s

RECURSIVE RStrip(_)
RStrip(s) == IF s # <<>> /\ s[Len(s)] = " " THEN RStrip(SubSeq(s, 1, Len(s) - 1)) ELSE s

\* str.strip()
Strip(s) == RStrip(LStrip(s))

\* str.lower() on the characters a confirmation may hold
LowerChar(c) == IF c = "Y" THEN "y" ELSE IF c = "N" THEN "n" ELSE c
Lower(s) == [i \in 1..Len(s) |-> LowerChar(s[i])]

Digits == {"0", "1"}
DigitVal(c) == IF c = "1" THEN 1 ELSE 0

RECURSIVE Decimal(_)
Decimal(s) == IF s = <<>> THEN 0
              ELSE 10 * Decimal(SubSeq(s, 1, Len(s) - 1)) + DigitVal(s[Len(s)])

AllDigits(s) == s # <<>> /\ \A i \in 1..Len(s) : s[i] \in Digits

\* int(s) accepts surrounding whitespace, one optional sign, then digits only
IsInt(s) ==
    LET t == Strip(s)
    IN  \/ AllDigits(t)
        \/ t # <<>> /\ Head(t) = "-" /\ AllDigits(Tail(t))

IntOf(s) ==
    LET t == Strip(s)
    IN  IF Head(t) = "-" THEN 0 - Decimal(Tail(t)) ELSE Decimal(t)

(***************************************************************************)
(* Values of Python locals: unbound, an int, or a str.                     *)
(***************************************************************************)
Unbound   == [tag |-> "unbound", int |-> 0, str |-> <<>>]
IntVal(n) == [tag |-> "int", int |-> n, str |-> <<>>]
StrVal(s) == [tag |-> "str", int |-> 0, str |-> s]

Msg(m)        == [msg |-> m, code |-> <<>>]
MsgCode(m, c) == [msg |-> m, code |-> <<c>>]
Printed(m)    == \E i \in 1..Len(out) : out[i].msg = m

InputChars   == {"0", "1", "-", "x", " "}
ConfirmChars == {"y", "Y", "n", "x", " "}
Inputs   == SeqsUpTo(InputChars, MaxInputLen)
Confirms == SeqsUpTo(ConfirmChars, MaxInputLen)

(***************************************************************************)
(* get_user_input (lines 32-81).  The filename prompt (lines 43-48) does   *)
(* not influence any later step and is left out.                           *)
(***************************************************************************)

\* `int(x) if x else default` applied to the stripped answer x (lines 53, 56, 59)
ParseComponent(x, default) ==
    IF x = <<>> THEN IntVal(default)
    ELSE IF IsInt(x) THEN IntVal(IntOf(x))
    ELSE StrVal(x)        \* int(x) raises ValueError; the local keeps the str

\* A faulty variant of lines 61-65, with `total < 0` at line 63: a total of zero
\* is kept (C5 depends on this comparison).
ResolveTotalZeroKept(h, m, s) ==
    LET total == (h * 3600) + (m * 60) + s
    IN  IF total < 0 THEN FALLBACK_SECONDS ELSE total

\* lines 61-65
ResolveTotal(h, m, s) ==
    LET total == (h * 3600) + (m * 60) + s
    IN  IF total <= 0 THEN FALLBACK_SECONDS ELSE total

\* A faulty variant of line 77, `confirm and confirm[0] == 'n'`: only an explicit
\* "n" aborts (C6 depends on this test).
ConfirmAbortsOnlyOnN(confirm) == confirm # <<>> /\ confirm[1] = "n"

\* line 77: `confirm and confirm[0] != 'y'`
ConfirmAborts(confirm) == confirm # <<>> /\ confirm[1] # "y"

\* lines 66-68: the except ValueError clause
ValueErrorHandler ==
    /\ out' = Append(out, Msg("WarningInvalidInput"))
    /\ total_seconds' = IntVal(FALLBACK_SECONDS)
    /\ pc' = "summary"

\* lines 52-53
InputHours ==
    /\ pc = "input_hours"
    /\ \E typed \in Inputs :
         LET x == Strip(typed)
             v == ParseComponent(x, DEFAULT_DURATION_HOURS)
         IN  /\ hours' = v
             /\ blanks' = IF x = <<>> THEN blanks \cup {"hours"} ELSE blanks
             /\ IF v.tag = "int"
                  THEN /\ pc' = "input_minutes"
                       /\ UNCHANGED <<out, total_seconds, badPos>>
                  ELSE /\ badPos' = "hours"
                       /\ ValueErrorHandler
    /\ UNCHANGED <<minutes, seconds, confirmLead, exitCode, procVars, recVars, detectVars>>

\* lines 55-56
InputMinutes ==
    /\ pc = "input_minutes"
    /\ \E typed \in Inputs :
         LET x == Strip(typed)
             v == ParseComponent(x, DEFAULT_DURATION_MINUTES)
         IN  /\ minutes' = v
             /\ blanks' = IF x = <<>> THEN blanks \cup {"minutes"} ELSE blanks
             /\ IF v.tag = "int"
                  THEN /\ pc' = "input_seconds"
                       /\ UNCHANGED <<out, total_seconds, badPos>>
                  ELSE /\ badPos' = "minutes"
                       /\ ValueErrorHandler
    /\ UNCHANGED <<hours, seconds, confirmLead, exitCode, procVars, recVars, detectVars>>

\* lines 58-65
InputSeconds ==
    /\ pc = "input_seconds"
    /\ \E typed \in Inputs :
         LET x == Strip(typed)
             v == ParseComponent(x, DEFAULT_DURATION_SECONDS)
         IN  /\ seconds' = v
             /\ blanks' = IF x = <<>> THEN blanks \cup {"seconds"} ELSE blanks
             /\ IF v.tag = "int"
                  THEN LET sum == (hours.int * 3600) + (minutes.int * 60) + v.int
                       IN  /\ total_seconds' = IntVal(ResolveTotal(hours.int, minutes.int, v.int))
                           /\ out' = IF sum <= 0
                                       THEN Append(out, Msg("WarningInvalidDuration"))
                                       ELSE out
                           /\ pc' = "summary"
                           /\ UNCHANGED badPos
                  ELSE /\ badPos' = "seconds"
                       /\ ValueErrorHandler
    /\ UNCHANGED <<hours, minutes, confirmLead, exitCode, procVars, recVars, detectVars>>

\* lines 70-73: the f-string of line 72 reads hours, minutes and seconds
ConfigSummary ==
    /\ pc = "summary"
    /\ IF hours.tag = "unbound" \/ minutes.tag = "unbound" \/ seconds.tag = "unbound"
         THEN /\ out' = Append(out, Msg("UnboundLocalError"))
              /\ exitCode' = <<1>>
              /\ pc' = "uncaught"
         ELSE /\ out' = Append(out, Msg("ConfigSummary"))
              /\ pc' = "confirm"
              /\ UNCHANGED exitCode
    /\ UNCHANGED <<inputVars, procVars, recVars, detectVars>>

\* lines 76-81 and the call of line 233; the locals end with the return
Confirm ==
    /\ pc = "confirm"
    /\ \E typed \in Confirms :
         LET confirm == Lower(Strip(typed))
         IN  /\ confirmLead' = IF confirm = <<>> THEN <<>> ELSE <<confirm[1]>>
             /\ IF ConfirmAborts(confirm)
                  THEN /\ out' = Append(out, Msg("RecordingCancelled"))
                       /\ exitCode' = <<0>>
                       /\ pc' = "exited"
                       /\ UNCHANGED <<hours, minutes, seconds, total_seconds, blanks,
                                      duration_seconds>>
                  ELSE /\ duration_seconds' = total_seconds.int
                       /\ hours' = Unbound /\ minutes' = Unbound /\ seconds' = Unbound
                       /\ total_seconds' = Unbound
                       /\ blanks' = {}
                       /\ pc' = "check_ffmpeg"
                       /\ UNCHANGED <<out, exitCode>>
    /\ UNCHANGED <<badPos, procVars, probeCount, spawnCount, interrupts, intrWhileRunning,
                   lifecycle, toolMissing, detectVars>>

(***************************************************************************)
(* check_ffmpeg_installed (lines 83-92) and record_audio_ffmpeg (94-176).  *)
(***************************************************************************)
ProbeOutcomes == {"ok", "nonzero", "notfound"}   \* exit 0, CalledProcessError, FileNotFoundError
SpawnOutcomes == {"ok", "notfound", "oserror"}   \* Popen returns, FileNotFoundError, another OSError

\* lines 85-92: True only when `ffmpeg -version` ran and exited with status 0
ProbeInstalled(r) == r = "ok"

\* A faulty variant of lines 98-99 without the `return`: recording goes on after a
\* failed probe (C8 depends on this return).
AfterProbeNoReturn(installed) == "popen"

\* lines 98-99: `if not check_ffmpeg_installed(): return`
AfterProbe(installed) == IF installed THEN "popen" ELSE "troubleshoot"

\* The statements of the inner try block (lines 142-157)
InnerTryPcs == {"communicate", "check_returncode", "check_file",
                "print_empty_stderr", "print_err_stderr"}
\* The statements of the except KeyboardInterrupt clause (lines 158-171)
HandlerPcs == {"except_kbi", "terminate", "wait", "print_forcing", "kill", "inspect"}
\* The statements of record_audio_ffmpeg that run while a child exists
RecordPcs == {"announce"} \cup InnerTryPcs \cup HandlerPcs

\* Where a KeyboardInterrupt raised at position p continues: the clause of line 158
\* covers the inner try only; the clauses of lines 173 and 175 (FileNotFoundError,
\* Exception) do not catch KeyboardInterrupt, a BaseException.
KeyboardInterruptTarget(p) == IF p \in InnerTryPcs THEN "except_kbi" ELSE "uncaught"

\* lines 98-99 with 83-92
CheckFfmpeg ==
    /\ pc = "check_ffmpeg"
    /\ \E r \in ProbeOutcomes :
         /\ probeCount' = probeCount + 1
         /\ pc' = AfterProbe(ProbeInstalled(r))
         /\ toolMissing' = IF r = "ok" THEN toolMissing ELSE "probe"
         /\ IF ProbeInstalled(r)
              THEN /\ out' = Append(out, Msg("FfmpegInstalled"))
                   /\ UNCHANGED lifecycle
              ELSE /\ out' = Append(out, Msg("FfmpegNotInstalled"))
                   /\ lifecycle' = Append(lifecycle, "Failed")
    /\ UNCHANGED <<exitCode, inputVars, procVars, duration_seconds, spawnCount,
                   interrupts, intrWhileRunning, detectVars>>

\* lines 101-137, and the clauses of lines 173-176 when Popen raises
Popen ==
    /\ pc = "popen"
    /\ \E r \in SpawnOutcomes :
         CASE r = "ok" ->
                /\ child' = "running"
                /\ spawnCount' = spawnCount + 1
                /\ lifecycle' = Append(lifecycle, "Running")
                /\ out' = Append(out, Msg("ExecutingCommand"))
                /\ pc' = "announce"
                /\ UNCHANGED toolMissing
           [] r = "notfound" ->
                /\ toolMissing' = "spawn"
                /\ out' = Append(out, Msg("FfmpegCommandNotFound"))
                /\ lifecycle' = Append(lifecycle, "Failed")
                /\ pc' = "troubleshoot"
                /\ UNCHANGED <<child, spawnCount>>
           [] r = "oserror" ->
                /\ out' = Append(out, Msg("UnexpectedError"))
                /\ lifecycle' = Append(lifecycle, "Failed")
                /\ pc' = "troubleshoot"
                /\ UNCHANGED <<child, spawnCount, toolMissing>>
    /\ duration_seconds' = 0      \* consumed by the command line; not read again
    /\ UNCHANGED <<exitCode, inputVars, exitStatus, returncode, sigterm, terminateCalled,
                   killCalled, waited, file, probeCount, interrupts, intrWhileRunning,
                   detectVars>>

\* lines 139-140
Announce ==
    /\ pc = "announce"
    /\ out' = Append(out, Msg("RecordingInProgress"))
    /\ pc' = "communicate"
    /\ UNCHANGED <<exitCode, inputVars, procVars, recVars, detectVars>>

\* line 144: returns once the child has exited
Communicate ==
    /\ pc = "communicate"
    /\ child = "exited"
    /\ returncode' = <<exitStatus>>
    /\ pc' = "check_returncode"
    /\ UNCHANGED <<out, exitCode, inputVars, child, exitStatus, sigterm, terminateCalled,
                   killCalled, waited, file, recVars, detectVars>>

\* lines 146-147 and 155
CheckReturncode ==
    /\ pc = "check_returncode"
    /\ IF returncode[1] = 0
         THEN /\ out' = Append(out, Msg("FinishedSuccessfully"))
              /\ pc' = "check_file"
              /\ UNCHANGED lifecycle
         ELSE /\ out' = Append(out, MsgCode("ErrorReturnCode", returncode[1]))
              /\ lifecycle' = Append(lifecycle, "Failed")
              /\ pc' = "print_err_stderr"
    /\ UNCHANGED <<exitCode, inputVars, procVars, duration_seconds, probeCount, spawnCount,
                   interrupts, intrWhileRunning, toolMissing, detectVars>>

\* A faulty variant of line 148 that tests os.path.exists(f) alone (C2 depends on
\* the size test).
UsableIfExists(f) == f # "missing"

\* os.path.exists(f) and os.path.getsize(f) > 0 (lines 148, 168)
Usable(f) == f = "nonempty"

\* lines 148-152
CheckFile ==
    /\ pc = "check_file"
    /\ IF Usable(file)
         THEN /\ out' = Append(out, Msg("AudioSaved"))
              /\ lifecycle' = Append(lifecycle, "Completed")
              /\ pc' = "troubleshoot"
         ELSE /\ out' = Append(out, Msg("MissingOrEmpty"))
              /\ lifecycle' = Append(lifecycle, "Failed")
              /\ pc' = "print_empty_stderr"
    /\ UNCHANGED <<exitCode, inputVars, procVars, duration_seconds, probeCount, spawnCount,
                   interrupts, intrWhileRunning, toolMissing, detectVars>>

\* line 153
PrintEmptyStderr ==
    /\ pc = "print_empty_stderr"
    /\ out' = Append(out, Msg("Stderr"))
    /\ pc' = "troubleshoot"
    /\ UNCHANGED <<exitCode, inputVars, procVars, recVars, detectVars>>

\* lines 156-157
PrintErrStderr ==
    /\ pc = "print_err_stderr"
    /\ out' = Append(Append(out, Msg("Stderr")), Msg("PleaseCheck"))
    /\ pc' = "troubleshoot"
    /\ UNCHANGED <<exitCode, inputVars, procVars, recVars, detectVars>>

\* SIGINT while record_audio_ffmpeg runs with a child: KeyboardInterrupt is raised
\* at the current position
KeyboardInterrupt ==
    /\ pc \in RecordPcs
    /\ child # "none"
    /\ interrupts < MaxInterrupts
    /\ interrupts' = interrupts + 1
    /\ intrWhileRunning' = (intrWhileRunning \/ child = "running")
    /\ pc' = KeyboardInterruptTarget(pc)
    /\ IF KeyboardInterruptTarget(pc) = "uncaught"
         THEN /\ out' = Append(out, Msg("KeyboardInterruptTraceback"))
              /\ exitCode' = <<130>>
         ELSE UNCHANGED <<out, exitCode>>
    /\ UNCHANGED <<inputVars, procVars, duration_seconds, probeCount, spawnCount,
                   lifecycle, toolMissing, detectVars>>

\* line 159
ExceptKbi ==
    /\ pc = "except_kbi"
    /\ out' = Append(out, Msg("StoppedEarly"))
    /\ lifecycle' = Append(lifecycle, "Interrupted")
    /\ pc' = "terminate"
    /\ UNCHANGED <<exitCode, inputVars, procVars, duration_seconds, probeCount, spawnCount,
                   interrupts, intrWhileRunning, toolMissing, detectVars>>

\* line 160: process.terminate() sends SIGTERM unless the child was already reaped
Terminate ==
    /\ pc = "terminate"
    /\ terminateCalled' = TRUE
    /\ sigterm' = (sigterm \/ (child = "running" /\ returncode = <<>>))
    /\ pc' = "wait"
    /\ UNCHANGED <<out, exitCode, inputVars, child, exitStatus, returncode, killCalled,
                   waited, file, recVars, detectVars>>

\* lines 162-163: process.wait(timeout=5) returns because the child has exited
WaitReturns ==
    /\ pc = "wait"
    /\ child = "exited"
    /\ returncode' = <<exitStatus>>
    /\ out' = Append(out, Msg("TerminatedCleanly"))
    /\ pc' = "inspect"
    /\ UNCHANGED <<exitCode, inputVars, child, exitStatus, sigterm, terminateCalled,
                   killCalled, waited, file, recVars, detectVars>>

\* line 162: one more second of the grace period passes
WaitTick ==
    /\ pc = "wait"
    /\ child = "running"
    /\ waited < WAIT_TIMEOUT
    /\ waited' = waited + 1
    /\ UNCHANGED <<pc, out, exitCode, inputVars, child, exitStatus, returncode, sigterm,
                   terminateCalled, killCalled, file, recVars, detectVars>>

\* lines 162, 164: the child has not exited after timeout seconds
GraceExpired(c, w) == c = "running" /\ w = WAIT_TIMEOUT

\* lines 162, 164: TimeoutExpired is raised
WaitTimeout ==
    /\ pc = "wait"
    /\ GraceExpired(child, waited)
    /\ pc' = "print_forcing"
    /\ UNCHANGED <<out, exitCode, inputVars, procVars, recVars, detectVars>>

\* line 165
PrintForcing ==
    /\ pc = "print_forcing"
    /\ out' = Append(out, Msg("Forcing"))
    /\ pc' = "kill"
    /\ UNCHANGED <<exitCode, inputVars, procVars, recVars, detectVars>>

\* line 166: process.kill() sends SIGKILL, which the child cannot survive
Kill ==
    /\ pc = "kill"
    /\ killCalled' = TRUE
    /\ IF child = "running"
         THEN child' = "exited" /\ exitStatus' = -9
         ELSE UNCHANGED <<child, exitStatus>>
    /\ pc' = "inspect"
    /\ UNCHANGED <<out, exitCode, inputVars, returncode, sigterm, terminateCalled, waited,
                   file, recVars, detectVars>>

\* lines 168-171
Inspect ==
    /\ pc = "inspect"
    /\ out' = Append(out, Msg(IF Usable(file) THEN "PartialSaved" ELSE "NoUsableOutput"))
    /\ pc' = "troubleshoot"
    /\ UNCHANGED <<exitCode, inputVars, procVars, recVars, detectVars>>

\* lines 235-246 of main, then the interpreter exits with status 0
Troubleshoot ==
    /\ pc = "troubleshoot"
    /\ out' = Append(out, Msg("Troubleshooting"))
    /\ exitCode' = <<0>>
    /\ pc' = "done"
    /\ UNCHANGED <<inputVars, procVars, recVars, detectVars>>

(***************************************************************************)
(* The environment of the controller: the ffmpeg child (spawned at line    *)
(* 137) exits on its own, or after SIGTERM, and writes the output file.    *)
(***************************************************************************)
ExitStatuses == IF sigterm THEN {0, 1, 255} ELSE {0, 1}

ChildExits ==
    /\ child = "running"
    /\ \E st \in ExitStatuses : exitStatus' = st
    /\ child' = "exited"
    /\ UNCHANGED <<pc, out, exitCode, inputVars, returncode, sigterm, terminateCalled,
                   killCalled, waited, file, recVars, detectVars>>

EncoderWrites ==
    /\ child = "running"
    /\ \E f \in {"empty", "nonempty"} : f # file /\ file' = f
    /\ UNCHANGED <<pc, out, exitCode, inputVars, child, exitStatus, returncode, sigterm,
                   terminateCalled, killCalled, waited, recVars, detectVars>>

(***************************************************************************)
(* detect_pulseaudio_monitor_source (lines 178-212).  A line of the        *)
(* listing is a sequence of tokens; None is <<>> and a str s is <<s>>.     *)
(***************************************************************************)
Tokens == {".monitor", "monitor", "src", " ", "Name:"}
Lines  == SeqsUpTo(Tokens, MaxLineLen)
ToolOutcomes == {"absent", "nonzero", "ok"}   \* FileNotFoundError, returncode != 0, returncode 0

None == <<>>
Some(x) == <<x>>

\* line 198: line.strip().startswith('Name:')
IsNameLine(line) == LET t == Strip(line) IN t # <<>> /\ Head(t) = "Name:"

\* line 199: line.split(':', 1)[1].strip()
NameOf(line) == Strip(Tail(LStrip(line)))

\* line 200: '.monitor' in line
HasDotMonitor(line) == \E i \in 1..Len(line) : line[i] = ".monitor"

\* line 205: 'monitor' in source
HasMonitor(source) == \E i \in 1..Len(source) : source[i] \in {"monitor", ".monitor"}

\* line 200: a str is true unless it is empty; None is false
Truthy(opt) == opt # None /\ opt[1] # <<>>

\* lines 204-209
SelectSource(sources) ==
    LET marked == { i \in 1..Len(sources) : HasMonitor(sources[i]) }
    IN  IF marked # {}
          THEN Some(sources[CHOOSE i \in marked : \A j \in marked : i <= j])
          ELSE IF sources # <<>> THEN Some(sources[1]) ELSE None

\* lines 183-195, 211-212
DetectRun ==
    /\ pc = "detect_run"
    /\ \E r \in ToolOutcomes :
         /\ toolResult' = r
         /\ IF r = "ok"
              THEN /\ \E n \in 1..MaxLines : nLines' = n
                   /\ pc' = "detect_loop"
              ELSE /\ pc' = "detect_done"
                   /\ UNCHANGED nLines
    /\ UNCHANGED <<out, exitCode, inputVars, procVars, recVars, current_name,
                   monitor_sources, result, firstName, firstMonitorName>>

\* lines 197-201: one iteration of the loop over the lines
DetectLine ==
    /\ pc = "detect_loop"
    /\ nLines > 0
    /\ \E line \in Lines :
         /\ IF IsNameLine(line)
              THEN /\ current_name' = Some(NameOf(line))
                   /\ UNCHANGED monitor_sources
              ELSE IF HasDotMonitor(line) /\ Truthy(current_name)
                THEN /\ monitor_sources' = Append(monitor_sources, current_name[1])
                     /\ UNCHANGED current_name
                ELSE UNCHANGED <<current_name, monitor_sources>>
         \* history: an entry of the listing is a Name: line with an identifier
         /\ firstName' = IF IsNameLine(line) /\ NameOf(line) # <<>> /\ firstName = None
                           THEN Some(NameOf(line)) ELSE firstName
         /\ firstMonitorName' =
              IF IsNameLine(line) /\ HasMonitor(NameOf(line)) /\ firstMonitorName = None
                THEN Some(NameOf(line)) ELSE firstMonitorName
    /\ nLines' = nLines - 1
    /\ UNCHANGED <<pc, out, exitCode, inputVars, procVars, recVars, toolResult, result>>

\* lines 203-209
DetectSelect ==
    /\ pc = "detect_loop"
    /\ nLines = 0
    /\ result' = SelectSource(monitor_sources)
    /\ pc' = "detect_done"
    /\ UNCHANGED <<out, exitCode, inputVars, procVars, recVars, toolResult, nLines,
                   current_name, monitor_sources, firstName, firstMonitorName>>

(***************************************************************************)
(* Specifications.                                                         *)
(***************************************************************************)
InitCommon ==
    /\ hours = Unbound /\ minutes = Unbound /\ seconds = Unbound
    /\ total_seconds = Unbound
    /\ blanks = {}
    /\ badPos = "none"
    /\ confirmLead = <<>>
    /\ duration_seconds = 0
    /\ out = <<>>
    /\ exitCode = <<>>
    /\ probeCount = 0
    /\ spawnCount = 0
    /\ child = "none"
    /\ exitStatus = 0
    /\ returncode = <<>>
    /\ sigterm = FALSE
    /\ terminateCalled = FALSE
    /\ killCalled = FALSE
    /\ waited = 0
    /\ interrupts = 0
    /\ intrWhileRunning = FALSE
    /\ lifecycle = <<"NotStarted">>
    /\ toolMissing = "no"
    /\ toolResult = "ok"
    /\ nLines = 0
    /\ current_name = None
    /\ monitor_sources = <<>>
    /\ result = None
    /\ firstName = None
    /\ firstMonitorName = None

\* main from line 230 on: the detection of lines 223-227 only prints its result
Init ==
    /\ pc = "input_hours"
    /\ file \in {"missing", "empty", "nonempty"}
    /\ InitCommon

Next ==
    \/ InputHours \/ InputMinutes \/ InputSeconds \/ ConfigSummary \/ Confirm
    \/ CheckFfmpeg \/ Popen \/ Announce \/ Communicate \/ CheckReturncode
    \/ CheckFile \/ PrintEmptyStderr \/ PrintErrStderr
    \/ KeyboardInterrupt \/ ExceptKbi \/ Terminate
    \/ WaitReturns \/ WaitTick \/ WaitTimeout \/ PrintForcing \/ Kill \/ Inspect
    \/ Troubleshoot
    \/ ChildExits \/ EncoderWrites

Spec == Init /\ [][Next]_vars

\* detect_pulseaudio_monitor_source, as called at line 223
InitDetect ==
    /\ pc = "detect_run"
    /\ file = "missing"
    /\ InitCommon

NextDetect == DetectRun \/ DetectLine \/ DetectSelect

SpecDetect == InitDetect /\ [][NextDetect]_vars

(***************************************************************************)
(* Properties.                                                             *)
(***************************************************************************)
\* record_audio_ffmpeg has been left, by a return or by an exception
RecordLeft == pc \in {"troubleshoot", "done"} \/ (pc = "uncaught" /\ spawnCount > 0)
\* record_audio_ffmpeg has returned
RecordReturned == pc \in {"troubleshoot", "done"}

\* The outcomes reported so far, by the message that reports each
Outcomes ==
    {o \in {"Completed", "EmptyOutput", "Failed", "ToolNotFound", "Unexpected",
            "PartialSaved", "NoUsableOutput"} :
       \/ o = "Completed"      /\ Printed("AudioSaved")
       \/ o = "EmptyOutput"    /\ Printed("MissingOrEmpty")
       \/ o = "Failed"         /\ Printed("ErrorReturnCode")
       \/ o = "ToolNotFound"   /\ (Printed("FfmpegNotInstalled") \/ Printed("FfmpegCommandNotFound"))
       \/ o = "Unexpected"     /\ Printed("UnexpectedError")
       \/ o = "PartialSaved"   /\ Printed("PartialSaved")
       \/ o = "NoUsableOutput" /\ Printed("NoUsableOutput")}

NaturalOutcomes == {"Completed", "EmptyOutput", "Failed"}

\* C1: an interrupt that arrives while the child runs makes the controller request
\* graceful termination and classify the run Interrupted before it leaves; the
\* child is force-killed only after a terminate request and a full grace period
\* of 5 s.  (Fails: see C10.)
C1_InterruptTerminatesChild ==
    /\ (RecordLeft /\ intrWhileRunning) =>
          /\ terminateCalled
          /\ lifecycle[Len(lifecycle)] = "Interrupted"
    /\ killCalled => (terminateCalled /\ waited = WAIT_TIMEOUT)

\* C2: after a natural exit without any interrupt, exactly one outcome is reported:
\* Completed for status 0 with a non-empty file, EmptyOutput with the diagnostic
\* stream for status 0 with a missing or empty file, Failed with the return code
\* and the diagnostic stream for a non-zero status.
C2_NaturalExitOutcome ==
    (RecordReturned /\ spawnCount = 1 /\ interrupts = 0) =>
        /\ returncode = <<exitStatus>>
        /\ (exitStatus = 0 /\ file = "nonempty") => Outcomes = {"Completed"}
        /\ (exitStatus = 0 /\ file # "nonempty") =>
              (Outcomes = {"EmptyOutput"} /\ Printed("Stderr"))
        /\ exitStatus # 0 =>
              /\ Outcomes = {"Failed"}
              /\ Printed("Stderr")
              /\ \E i \in 1..Len(out) :
                    out[i] = MsgCode("ErrorReturnCode", exitStatus)

C2_Witness ==
    /\ pc = "done" /\ spawnCount = 1 /\ interrupts = 0
    /\ exitStatus = 0 /\ file = "empty"
    /\ Outcomes = {"EmptyOutput"}

\* C3: a run interrupted while the child ran reports the partial file exactly when
\* the output file is non-empty, reports "no usable output" otherwise, and never
\* reports a natural-exit outcome.  (Fails: see C10.)
C3_InterruptedReport ==
    (RecordLeft /\ intrWhileRunning) =>
        /\ file = "nonempty" => "PartialSaved" \in Outcomes
        /\ file # "nonempty" => "NoUsableOutput" \in Outcomes
        /\ ~("PartialSaved" \in Outcomes /\ "NoUsableOutput" \in Outcomes)
        /\ Outcomes \cap NaturalOutcomes = {}

\* C4: a non-numeric duration component, in whichever position, is answered by a
\* warning and the fallback of 86400 seconds, and the configuration step goes on
\* without an error.
C4_NonNumericFallsBack ==
    badPos # "none" =>
        /\ Printed("WarningInvalidInput")
        /\ pc # "uncaught"
        /\ pc \in {"summary", "confirm"} => total_seconds = IntVal(86400)
        /\ pc \in {"check_ffmpeg", "popen"} => duration_seconds = 86400

\* C5: when all three components parse (a blank one taking its default 24, 0, 0),
\* the resolved total is hours*3600 + minutes*60 + seconds if that is > 0 and
\* 86400 otherwise, and the duration passed on to the encoder is positive.
C5_ResolvedTotal ==
    /\ (pc \in {"summary", "confirm"} /\ badPos = "none") =>
          /\ hours.tag = "int" /\ minutes.tag = "int" /\ seconds.tag = "int"
          /\ "hours" \in blanks => hours.int = 24
          /\ "minutes" \in blanks => minutes.int = 0
          /\ "seconds" \in blanks => seconds.int = 0
          /\ total_seconds.tag = "int"
          /\ LET sum == hours.int * 3600 + minutes.int * 60 + seconds.int
             IN  /\ sum > 0 => total_seconds.int = sum
                 /\ sum <= 0 => total_seconds.int = 86400
    /\ pc \in {"check_ffmpeg", "popen"} => duration_seconds > 0

C5_Witness ==
    /\ pc = "confirm" /\ badPos = "none"
    /\ blanks = {"minutes"}
    /\ hours.int = 0 /\ seconds.int = 0
    /\ total_seconds.int = 86400

\* The confirmation has been answered
ConfirmAnswered == Printed("ConfigSummary") /\ pc # "confirm"

\* C6 as stated: only an answer with the leading character y lets the run go on;
\* every other answer ends the process with code 0 before any probe or spawn.
C6_OnlyAffirmativeProceeds ==
    ConfirmAnswered =>
        IF confirmLead = <<"y">>
          THEN pc # "exited"
          ELSE pc = "exited" /\ exitCode = <<0>> /\ probeCount = 0 /\ spawnCount = 0

\* C6 as the code has it: a non-blank answer whose leading character, after
\* trimming and lower-casing, is not y ends the process with code 0 before any
\* probe or spawn; a blank answer, like an affirmative one, lets the run go on.
C6_BlankOrAffirmativeProceeds ==
    ConfirmAnswered =>
        IF confirmLead \in {<<>>, <<"y">>}
          THEN pc # "exited"
          ELSE pc = "exited" /\ exitCode = <<0>> /\ probeCount = 0 /\ spawnCount = 0

C6_Witness ==
    /\ pc = "exited" /\ confirmLead = <<"x">>
    /\ exitCode = <<0>> /\ probeCount = 0

\* C7: the detection returns the first listed entry whose identifier contains
\* "monitor", else the first listed entry, and nothing only when the tool is
\* absent, fails, or lists no entry.
C7_FirstMonitorOrFirstListed ==
    pc = "detect_done" =>
        result = IF toolResult # "ok" THEN None
                 ELSE IF firstMonitorName # None THEN firstMonitorName
                 ELSE firstName

\* C8: when ffmpeg is not found, by the probe or by the spawn, the run is Failed
\* with the tool-not-found diagnostic and nothing else; no child exists afterwards,
\* and no run spawns the encoder more than once.
C8_ToolNotFoundTerminal ==
    /\ spawnCount <= 1
    /\ toolMissing # "no" =>
          /\ RecordReturned
          /\ Outcomes = {"ToolNotFound"}
          /\ Printed(IF toolMissing = "probe" THEN "FfmpegNotInstalled"
                                               ELSE "FfmpegCommandNotFound")
          /\ lifecycle[Len(lifecycle)] = "Failed"
          /\ child = "none" /\ spawnCount = 0

C8_Witness ==
    /\ pc = "done" /\ toolMissing = "spawn"
    /\ probeCount = 1 /\ spawnCount = 0
    /\ Printed("FfmpegCommandNotFound")

FinalStates == {"Completed", "Failed", "Interrupted"}

\* C9: the controller's states follow NotStarted -> Running -> one final state, the
\* final state is never left, and a run that entered Running has reached a final
\* state when the controller is left.  (Fails: see C10.)
C9_Lifecycle ==
    /\ \/ lifecycle = <<"NotStarted">>
       \/ lifecycle = <<"NotStarted", "Running">>
       \/ \E f \in FinalStates : lifecycle = <<"NotStarted", "Running", f>>
    /\ (RecordLeft /\ spawnCount > 0) => Len(lifecycle) = 3

\* C10: the controller is never left while the spawned child still runs without a
\* terminate or kill request having been issued to it.
C10_NoOrphan ==
    (RecordLeft /\ child = "running") => (terminateCalled \/ killCalled)

====
